---- MODULE Spec2Model ----
(***************************************************************************)
(* State-machine model of the Canvas HTTP layer:                           *)
(*   utils/http_client.py  BaseHTTPClient._make_request, HTTPResponse,     *)
(*                         HTTPError                                       *)
(*   utils/canvas_api.py   CanvasAPIClient.get_canvas_data,                *)
(*                         CanvasAPIClient.get_paginated_data              *)
(*   config.py             Config.validate                                 *)
(*   tools/courses/        get_courses (get_all_courses.py, get_courses.py)*)
(*   server.py             signal_handler, run_server                      *)
(*                                                                         *)
(* Every invocation p of the process-wide client has its own locals        *)
(* (Python coroutine frames); the only suspension point is the network     *)
(* exchange inside _make_request, so one action runs a coroutine from one  *)
(* await to the next.                                                      *)
(*                                                                         *)
(* Optional values (Python None) are sets with at most one element:        *)
(* {} is None, {v} is the value v.                                         *)
(***************************************************************************)
EXTENDS Integers, Sequences, FiniteSets, TLC

VARIABLES
    token,      \* Config.CANVAS_API_TOKEN (class attribute, shared)
    pc,         \* per invocation: "off" | "idle" | "awaiting" | "returned" | "raised"
    kind,       \* per invocation: "none" | "paginated" | "single"
    endpoint,   \* argument endpoint
    params,     \* argument params (optional)
    current_params, \* local current_params of get_paginated_data
    max_pages,  \* argument max_pages of get_paginated_data
    per_page,   \* argument per_page of get_paginated_data
    timeout,    \* argument timeout of get_canvas_data (optional)
    page,       \* loop variable of get_paginated_data
    all_data,   \* accumulator of get_paginated_data
    ret_list,   \* value returned by get_paginated_data
    ret_resp,   \* HTTPResponse returned by get_canvas_data (optional)
    err,        \* exception that left the call (optional)
    reqLog,     \* history: the requests handed to httpx, in order
    respLog,    \* history: the outcome of each finished exchange, in order
    mrLog,      \* history: what _make_request produced for each finished exchange
    inflight,   \* history: number of exchanges of this invocation in flight
    tool_ret,   \* value returned by a tool handler (optional)
    calc,       \* the helper method under study, its arguments and its results
    server      \* run_server and signal_handler: the task group of the process

\* The state of the client's invocations.
clientVars == <<token, pc, kind, endpoint, params, current_params, max_pages, per_page, timeout, page, all_data,
                ret_list, ret_resp, err, reqLog, respLog, mrLog, inflight, tool_ret,
                server>>

vars == <<token, pc, kind, endpoint, params, current_params, max_pages, per_page, timeout, page, all_data,
          ret_list, ret_resp, err, reqLog, respLog, mrLog, inflight, tool_ret, calc, server>>

(***************************************************************************)
(* Bounds of the model.                                                    *)
(***************************************************************************)
MaxPages == 3       \* largest max_pages argument tried
MaxPerPage == 2     \* largest per_page argument tried
MaxBodyLen == 2     \* longest JSON array the upstream sends
MaxStrLen == 2      \* longest base URL and endpoint tried by _build_url
MaxMerges == 2      \* header merges made in a row on one client
ConcPages == 2      \* max_pages of the paginated calls that run concurrently
MaxLimit == 3       \* largest limit argument of get_courses tried
MaxCourses == 4     \* most courses held by the upstream (besides one more than
                    \* the pages of an unlimited call can hold)
MaxSignals == 2     \* most signals that reach the process while it serves
MaxParams == 2      \* most entries of a parameter mapping given to _format_canvas_params

Procs == {1, 2}

Tokens == {"", "tok"}

\* Endpoints as character sequences, without and with a leading slash.
Endpoints == {<<"c">>, <<"/", "c">>}

\* Config.CANVAS_BASE_URL as a character sequence (trailing slash included
\* to exercise the rstrip of the constructor).
CANVAS_BASE_URL == <<"h", "/">>

\* Config.CANVAS_TIMEOUT default.
CANVAS_TIMEOUT == 30

\* Per-call timeout overrides tried: None, 0 and a positive value.
Timeouts == {{}, {0}, {5}}

\* Status codes the upstream answers a page request with: success, the
\* first status past 2xx, the three rewrapped statuses and a server error.
Statuses == {200, 300, 401, 403, 404, 500}

\* Status codes tried on a direct get_canvas_data call: the same and the
\* last 2xx status.
StatusesSingle == Statuses \cup {299}

(***************************************************************************)
(* JSON values.  Every value is a record of one shape so that values of    *)
(* different Python types stay comparable:                                 *)
(*   shape "list"   : items is the list                                    *)
(*   shape "dict"   : hasMessage says whether the key 'message' is present,*)
(*                    id tells records apart                               *)
(*   shape "text"   : a str                                                *)
(*   shape "scalar" : a number or boolean                                  *)
(*   shape "null"   : None                                                 *)
(***************************************************************************)
Value(shape, items, hasMessage, id) ==
    [shape |-> shape, items |-> items, hasMessage |-> hasMessage, id |-> id]

\* The i-th record of the page the upstream serves for page number k.
Rec(k, i) == Value("dict", <<>>, FALSE, <<k, i>>)

\* The bodies the upstream can send in answer to a request for page k:
\* raw bytes, described by whether they are valid JSON and, if so, by the
\* JSON value they encode (val is not read when json is FALSE).
RawBodies(k) ==
    { [json |-> TRUE, val |-> Value("list", [i \in 1..n |-> Rec(k, i)], FALSE, <<k, 0>>)] :
          n \in 0..MaxBodyLen }
    \cup { [json |-> TRUE, val |-> Value("dict", <<>>, m, <<k, 0>>)] : m \in BOOLEAN }
    \cup { [json |-> TRUE, val |-> Value(s, <<>>, FALSE, <<k, 0>>)] :
          s \in {"text", "scalar", "null"} }
    \cup { [json |-> FALSE, val |-> Value("null", <<>>, FALSE, <<k, 0>>)] }

\* What one exchange can end in: a completed response, or an exception of
\* the transport library (httpx.TimeoutException, httpx.NetworkError, or
\* another httpx.TransportError / httpx.RequestError subclass).
NoBody == [json |-> FALSE, val |-> Value("null", <<>>, FALSE, <<0, 0>>)]

Outcomes(k, S) ==
    { [t |-> "resp", status |-> s, body |-> b] : s \in S, b \in RawBodies(k) }
    \cup { [t |-> x, status |-> 0, body |-> NoBody] : x \in {"timeout", "network", "other"} }

(***************************************************************************)
(* http_client.py                                                          *)
(***************************************************************************)
RECURSIVE Rstrip(_), Lstrip(_)
\* str.rstrip('/')
Rstrip(s) == IF s # <<>> /\ s[Len(s)] = "/" THEN Rstrip(SubSeq(s, 1, Len(s) - 1)) ELSE s
\* str.lstrip('/')
\* (variant: one leading slash is removed)
LstripBroken(s) == IF s # <<>> /\ s[1] = "/" THEN Tail(s) ELSE s
Lstrip(s) == IF s # <<>> /\ s[1] = "/" THEN Lstrip(Tail(s)) ELSE s

\* BaseHTTPClient.__init__: self.base_url = base_url.rstrip('/')
InitBaseUrl(b) == Rstrip(b)

\* BaseHTTPClient._build_url on a client whose self.base_url is bu
BuildUrlWith(bu, ep) == bu \o <<"/">> \o Lstrip(ep)

\* CanvasAPIClient.__init__: self.base_url, self.timeout
base_url == InitBaseUrl(CANVAS_BASE_URL)
self_timeout == CANVAS_TIMEOUT

\* BaseHTTPClient._build_url on the Canvas client
BuildUrl(ep) == BuildUrlWith(base_url, ep)

\* request_timeout = timeout or self.timeout
RequestTimeout(to) == IF to = {} \/ to = {0} THEN self_timeout ELSE CHOOSE v \in to : TRUE

\* dict.update: the entries of b overlaid on those of a
DictUpdate(a, b) ==
    [k \in DOMAIN a \cup DOMAIN b |-> IF k \in DOMAIN b THEN b[k] ELSE a[k]]

\* BaseHTTPClient._merge_headers: the merged headers, and self.default_headers
\* as the call leaves it (headers is a copy, so the stored mapping is not
\* written).
\* (variant: no copy is taken, the update writes the stored mapping)
MergeHeadersBroken(default_headers, additional_headers) ==
    LET headers ==
            IF additional_headers # {} /\ additional_headers # {<<>>}
            THEN DictUpdate(default_headers, CHOOSE h \in additional_headers : TRUE)
            ELSE default_headers
    IN  [headers |-> headers, default_headers |-> headers]
MergeHeaders(default_headers, additional_headers) ==
    LET headers ==
            IF additional_headers # {} /\ additional_headers # {<<>>}
            THEN DictUpdate(default_headers, CHOOSE h \in additional_headers : TRUE)
            ELSE default_headers
    IN  [headers |-> headers, default_headers |-> default_headers]

\* HTTPResponse.is_success
\* (variant: the upper bound is included)
IsSuccessBroken(status_code) == 200 =< status_code /\ status_code =< 300
IsSuccess(status_code) == 200 =< status_code /\ status_code < 300

\* response.json() with the fallback to response.text
\* (variant: no fallback to the text, the placeholder of the failed parse
\* is used)
ParseBodyBroken(raw) == raw.val
ParseBody(raw) ==
    IF raw.json THEN raw.val ELSE Value("text", <<>>, FALSE, raw.val.id)

\* HTTPError(message, status_code, response_data, url)
HTTPError(msg, status_code, response_data, url) ==
    [type |-> "HTTPError", msg |-> msg, status_code |-> status_code,
     response_data |-> response_data, url |-> url]

\* A message: which text it is, and the number and the string interpolated
\* into it (0 and <<>> when there is none).
Msg(text, num, str) == [text |-> text, num |-> num, str |-> str]

\* error_msg of _make_request for a non-2xx response
StatusErrorMsg(status_code, data) ==
    Msg("HTTP error", status_code,
        IF data.shape = "dict" /\ data.hasMessage THEN <<"message">>
        ELSE IF data.shape = "text" THEN <<"text">> ELSE <<>>)

\* HTTPResponse(status_code, data, headers, url)
HTTPResponse(status_code, data, url) ==
    [status_code |-> status_code, data |-> data, url |-> url]

\* Result of one call: ok with a value, or an exception.
Ok(resp) == [ok |-> TRUE, resp |-> {resp}, exc |-> {}]
Raise(e) == [ok |-> FALSE, resp |-> {}, exc |-> {e}]

\* The raise for error status codes of _make_request
RaiseForStatus(status_code, data, url) ==
    Raise(HTTPError(StatusErrorMsg(status_code, data), {status_code}, {data}, {url}))

\* except httpx.TimeoutException: raise HTTPError(f"Request timeout after
\* {request_timeout}s", url=url)
\* (variant: the message names the client's default timeout)
TimeoutErrorBroken(request_timeout, url) ==
    HTTPError(Msg("Request timeout after", self_timeout, <<>>), {}, {}, {url})
TimeoutError(request_timeout, url) ==
    HTTPError(Msg("Request timeout after", request_timeout, <<>>), {}, {}, {url})

\* except httpx.NetworkError as e: raise HTTPError(f"Network error:
\* {str(e)}", url=url)
\* (variant: the error is given the status code 0)
NetworkErrorBroken(url) == HTTPError(Msg("Network error", 0, <<>>), {0}, {}, {url})
NetworkError(url) == HTTPError(Msg("Network error", 0, <<>>), {}, {}, {url})

\* Whether _make_request performs another exchange after one that ended in
\* result mr, having made `made` attempts: it holds one client.request call
\* and no loop around it, so it never does.
\* (variant: a failed exchange is tried once more)
TryAgainBroken(mr, made) == ~mr.ok /\ made < 2
TryAgain(mr, made) == FALSE

\* BaseHTTPClient._make_request, from the moment the exchange has ended in
\* outcome o.
MakeRequest(ep, to, o) ==
    LET url == BuildUrl(ep)
        request_timeout == RequestTimeout(to)
    IN  CASE o.t = "resp" ->
               LET response_data == ParseBody(o.body)
                   http_response == HTTPResponse(o.status, response_data, url)
               IN  IF ~IsSuccess(http_response.status_code)
                   THEN RaiseForStatus(o.status, response_data, url)
                   ELSE Ok(http_response)
          [] o.t = "timeout" ->
               Raise(TimeoutError(request_timeout, url))
          [] o.t = "network" ->
               Raise(NetworkError(url))
          [] OTHER ->
               \* an httpx exception no except clause catches leaves as it is
               Raise([type |-> "httpx", msg |-> Msg("httpx", 0, <<>>), status_code |-> {},
                      response_data |-> {}, url |-> {}])

(***************************************************************************)
(* config.py                                                               *)
(***************************************************************************)
\* Config.validate: passes exactly when the token is not empty
\* (variant: the token is not checked)
ConfigValidateBroken(tok) == TRUE
ConfigValidate(tok) == tok # ""

ValueError ==
    [type |-> "ValueError", msg |-> Msg("CANVAS_API_TOKEN is required", 0, <<>>),
     status_code |-> {}, response_data |-> {}, url |-> {}]

(***************************************************************************)
(* canvas_api.py                                                           *)
(***************************************************************************)
\* The except clause of get_canvas_data: the exception that leaves it when
\* self.get raised e.
\* (variant: only 401 is rewritten, and without its status code)
RewrapBroken(e, ep) ==
    IF e.type = "HTTPError" /\ e.status_code = {401}
    THEN HTTPError(Msg("Canvas API authentication failed", 0, <<>>),
                   {}, e.response_data, e.url)
    ELSE e
Rewrap(e, ep) ==
    IF e.type # "HTTPError" THEN e
    ELSE IF e.status_code = {401}
    THEN HTTPError(Msg("Canvas API authentication failed", 0, <<>>),
                   e.status_code, e.response_data, e.url)
    ELSE IF e.status_code = {403}
    THEN HTTPError(Msg("Canvas API access forbidden", 0, <<>>),
                   e.status_code, e.response_data, e.url)
    ELSE IF e.status_code = {404}
    THEN HTTPError(Msg("Canvas API endpoint not found", 0, ep),
                   e.status_code, e.response_data, e.url)
    ELSE e

\* get_canvas_data from the moment self.get has ended in mr
\* (variant: a failure is swallowed into an empty page)
GetCanvasDataResultBroken(ep, mr) ==
    IF mr.ok THEN mr
    ELSE Ok(HTTPResponse(200, Value("list", <<>>, FALSE, <<0, 0>>), BuildUrl(ep)))
GetCanvasDataResult(ep, mr) ==
    IF mr.ok THEN mr ELSE Raise(Rewrap(CHOOSE e \in mr.exc : TRUE, ep))

\* for page in range(1, max_pages + 1)
\* (variant: one page too many)
PageRangeBroken(mp) == 1..(mp + 1)
PageRange(mp) == 1..mp

\* the successor of a page number in range(1, max_pages + 1)
\* (variant: every other page)
NextPageBroken(pg) == pg + 2
NextPage(pg) == pg + 1

\* all_data.extend(page_data)
\* (variant: the page is put in front)
ExtendBroken(acc, page_data) == page_data \o acc
Extend(acc, page_data) == acc \o page_data

\* if len(page_data) < per_page: break
\* (variant: a full page counts as short)
IsShortPageBroken(page_data, pp) == Len(page_data) =< pp
IsShortPage(page_data, pp) == Len(page_data) < pp

\* elif isinstance(response.data, dict): return [response.data]
\* (variant: the mapping is appended to the accumulator)
OnMappingBroken(acc, data) == Extend(acc, <<data>>)
OnMapping(acc, data) == <<data>>

\* else: return []
OnOther(acc) == <<>>

(***************************************************************************)
(* Parameter mappings.  A dict is the sequence of its entries in insertion *)
(* order; a key is its name and the number of "[]" suffixes it carries; a  *)
(* value is None, a primitive, an enum member or a list of primitives and  *)
(* enum members.                                                           *)
(***************************************************************************)
Key(name, br) == [name |-> name, br |-> br]
PNone == [t |-> "none", v |-> 0, items |-> <<>>]
Prim(v) == [t |-> "prim", v |-> v, items |-> <<>>]
Enum(v) == [t |-> "enum", v |-> v, items |-> <<>>]
List(items) == [t |-> "list", v |-> 0, items |-> items]
Entry(k, v) == [k |-> k, v |-> v]

\* dct[k] = v
DictSet(dct, k, v) ==
    IF \E i \in 1..Len(dct) : dct[i].k = k
    THEN [i \in 1..Len(dct) |-> IF dct[i].k = k THEN Entry(k, v) ELSE dct[i]]
    ELSE Append(dct, Entry(k, v))

\* dict equality looks at the entries, not at their order
AsMap(dct) == { dct[i] : i \in 1..Len(dct) }

\* dct.get(k)
DictGet(dct, k) == { e.v : e \in { x \in AsMap(dct) : x.k = k } }

\* the keys that take the [] suffix
ArrayKeys == {"include", "state", "types", "workflow_state"}

\* key in ['include', 'state', 'types', 'workflow_state']
\* (variant: a key that already carries the suffix is taken for an array key)
IsArrayKeyBroken(key) == key.name \in ArrayKeys
IsArrayKey(key) == key.br = 0 /\ key.name \in ArrayKeys

\* f"{key}[]"
Bracketed(key) == [key EXCEPT !.br = @ + 1]

\* hasattr(value, 'value')
HasValueAttr(value) == value.t = "enum"

\* item.value if hasattr(item, 'value') else item
\* (variant: the item is passed as it is)
ReduceItemBroken(item) == item
ReduceItem(item) == IF HasValueAttr(item) THEN Prim(item.v) ELSE item

\* One iteration of the loop of _format_canvas_params.
FormatEntry(formatted_params, key, value) ==
    IF value.t = "none" THEN formatted_params
    ELSE IF IsArrayKey(key) /\ value.t = "list"
    THEN IF value.items # <<>>
         THEN DictSet(formatted_params, Bracketed(key),
                      List([i \in 1..Len(value.items) |-> ReduceItem(value.items[i])]))
         ELSE formatted_params
    ELSE IF HasValueAttr(value) THEN DictSet(formatted_params, key, Prim(value.v))
    ELSE DictSet(formatted_params, key, value)

RECURSIVE FormatFrom(_, _, _)
FormatFrom(raw, i, formatted_params) ==
    IF i > Len(raw) THEN formatted_params
    ELSE FormatFrom(raw, i + 1, FormatEntry(formatted_params, raw[i].k, raw[i].v))

\* CanvasAPIClient._format_canvas_params
FormatCanvasParams(raw) == FormatFrom(raw, 1, <<>>)

\* The request handed to httpx for one exchange.
Request(ep, prm, to) ==
    LET formatted_params == FormatCanvasParams(prm)
    IN  [url |-> BuildUrl(ep), params |-> formatted_params,
         page |-> { x.v : x \in DictGet(formatted_params, Key("page", 0)) },
         per_page |-> { x.v : x \in DictGet(formatted_params, Key("per_page", 0)) },
         timeout |-> RequestTimeout(to)]

\* params or {}
OrEmpty(prm) == IF prm = {} THEN <<>> ELSE CHOOSE d \in prm : TRUE

\* current_params = (params or {}).copy(): what the caller's mapping prm is
\* once current_params has been written to and holds cp.
\* (variant: no copy is taken, current_params is the caller's mapping)
CallerSeesBroken(prm, cp) == IF prm = {} THEN prm ELSE {cp}
CallerSees(prm, cp) == prm

\* current_params['per_page'] = per_page
SetPerPage(cp, pp) == DictSet(cp, Key("per_page", 0), Prim(pp))

\* current_params['page'] = page
\* (variant: a page entry already there is kept)
SetPageBroken(cp, pg) ==
    IF DictGet(cp, Key("page", 0)) = {} THEN DictSet(cp, Key("page", 0), Prim(pg)) ELSE cp
SetPage(cp, pg) == DictSet(cp, Key("page", 0), Prim(pg))

(***************************************************************************)
(* The state machine.                                                      *)
(***************************************************************************)
\* No helper method is under study.
NoCalc == [op |-> "none"]

\* all_data, current_params and page are locals of get_paginated_data: they
\* live in the coroutine frame of the invocation.
\* (variant: they are kept on the one client object, which every invocation
\* shares)
LocalsOfBroken(p) == 1
LocalsOf(p) == p

\* run_server inside its task group: main is the host task ("serving" in
\* await mcp.run_stdio_async(), "joining" at the end of the async with block,
\* "returned" from run_server), handler is the signal_handler task, pending
\* counts the signals the receiver holds unread, cancels the calls of
\* scope.cancel(), cancelled tells whether the scope is cancelled.
Serving ==
    [main |-> "serving", handler |-> "waiting", pending |-> 0, cancels |-> 0,
     cancelled |-> FALSE]

\* The client as constructed, no invocation made yet; the invocations in
\* active can be made.
ClientInitWith(active) ==
    /\ token \in Tokens
    /\ pc = [p \in Procs |-> IF p \in active THEN "idle" ELSE "off"]
    /\ kind = [p \in Procs |-> "none"]
    /\ endpoint = [p \in Procs |-> <<>>]
    /\ params = [p \in Procs |-> {}]
    /\ current_params = [p \in Procs |-> <<>>]
    /\ max_pages = [p \in Procs |-> 0]
    /\ per_page = [p \in Procs |-> 0]
    /\ timeout = [p \in Procs |-> {}]
    /\ page = [p \in Procs |-> 0]
    /\ all_data = [p \in Procs |-> <<>>]
    /\ ret_list = [p \in Procs |-> <<>>]
    /\ ret_resp = [p \in Procs |-> {}]
    /\ err = [p \in Procs |-> {}]
    /\ reqLog = [p \in Procs |-> <<>>]
    /\ respLog = [p \in Procs |-> <<>>]
    /\ mrLog = [p \in Procs |-> <<>>]
    /\ inflight = [p \in Procs |-> 0]
    /\ tool_ret = [p \in Procs |-> {}]
    /\ server = Serving

ClientInit == ClientInitWith({1})

Init == ClientInit /\ calc = NoCalc

\* get_canvas_data from its first line to the await inside _make_request:
\* config.validate() raises, or one request is handed to httpx.
EnterGetCanvasData(p, req) ==
    IF ConfigValidate(token)
    THEN /\ pc' = [pc EXCEPT ![p] = "awaiting"]
         /\ reqLog' = [reqLog EXCEPT ![p] = Append(@, req)]
         /\ inflight' = [inflight EXCEPT ![p] = @ + 1]
         /\ err' = err
    ELSE /\ pc' = [pc EXCEPT ![p] = "raised"]
         /\ err' = [err EXCEPT ![p] = {ValueError}]
         /\ UNCHANGED <<reqLog, inflight>>

\* A caller invokes get_paginated_data(endpoint, params, max_pages, per_page):
\* the code runs up to the first await (or to its end).
GetPaginatedDataCall(p, ep, prm, mp, pp) ==
    /\ pc[p] = "idle"
    /\ kind' = [kind EXCEPT ![p] = "paginated"]
    /\ endpoint' = [endpoint EXCEPT ![p] = ep]
    /\ params' = [params EXCEPT ![p] =
                      CallerSees(prm, IF 1 \in PageRange(mp)
                                      THEN SetPage(SetPerPage(OrEmpty(prm), pp), 1)
                                      ELSE SetPerPage(OrEmpty(prm), pp))]
    /\ max_pages' = [max_pages EXCEPT ![p] = mp]
    /\ per_page' = [per_page EXCEPT ![p] = pp]
    /\ all_data' = [all_data EXCEPT ![p] = <<>>]
    /\ IF 1 \in PageRange(mp)
       THEN /\ page' = [page EXCEPT ![p] = 1]
            /\ current_params' = [current_params EXCEPT ![p] =
                                      SetPage(SetPerPage(OrEmpty(prm), pp), 1)]
            /\ EnterGetCanvasData(p, Request(ep, SetPage(SetPerPage(OrEmpty(prm), pp), 1), {}))
            /\ UNCHANGED ret_list
       ELSE /\ pc' = [pc EXCEPT ![p] = "returned"]
            /\ current_params' = [current_params EXCEPT ![p] = SetPerPage(OrEmpty(prm), pp)]
            /\ ret_list' = [ret_list EXCEPT ![p] = <<>>]
            /\ UNCHANGED <<page, reqLog, inflight, err>>
    /\ UNCHANGED <<token, timeout, ret_resp, respLog, mrLog, calc, server>>

\* A caller other than a tool handler invokes get_paginated_data.
CallPaginated(p, ep, prm, mp, pp) == GetPaginatedDataCall(p, ep, prm, mp, pp) /\ UNCHANGED tool_ret

\* A caller invokes get_canvas_data(endpoint, params, headers, timeout).
GetCanvasDataCall(p, ep, prm, to) ==
    /\ pc[p] = "idle"
    /\ kind' = [kind EXCEPT ![p] = "single"]
    /\ endpoint' = [endpoint EXCEPT ![p] = ep]
    /\ params' = [params EXCEPT ![p] = prm]
    /\ timeout' = [timeout EXCEPT ![p] = to]
    /\ EnterGetCanvasData(p, Request(ep, OrEmpty(prm), to))
    /\ UNCHANGED <<token, current_params, max_pages, per_page, page, all_data, ret_list, ret_resp,
                   respLog, mrLog, calc, server>>

\* A caller other than a tool handler invokes get_canvas_data.
CallSingle(p, ep, prm, to) == GetCanvasDataCall(p, ep, prm, to) /\ UNCHANGED tool_ret

\* The number of exchanges made so far for the request now in flight.
AttemptsMade(p) ==
    Cardinality({i \in 1..Len(reqLog[p]) : reqLog[p][i] = reqLog[p][Len(reqLog[p])]})

\* The exchange of a direct get_canvas_data call ends in outcome o: the
\* code runs from the await to the return or raise of get_canvas_data.
GetCanvasDataEnds(p, o) ==
    /\ pc[p] = "awaiting" /\ kind[p] = "single"
    /\ LET mr == MakeRequest(endpoint[p], timeout[p], o)
           r == GetCanvasDataResult(endpoint[p], mr)
       IN  /\ respLog' = [respLog EXCEPT ![p] = Append(@, o)]
           /\ mrLog' = [mrLog EXCEPT ![p] = Append(@, mr)]
           /\ IF TryAgain(mr, AttemptsMade(p))
              THEN /\ reqLog' = [reqLog EXCEPT ![p] = Append(@, @[Len(@)])]
                   /\ UNCHANGED <<pc, ret_resp, err, inflight>>
              ELSE /\ inflight' = [inflight EXCEPT ![p] = @ - 1]
                   /\ pc' = [pc EXCEPT ![p] = IF r.ok THEN "returned" ELSE "raised"]
                   /\ ret_resp' = [ret_resp EXCEPT ![p] = r.resp]
                   /\ err' = [err EXCEPT ![p] = r.exc]
                   /\ UNCHANGED reqLog
    /\ UNCHANGED <<token, kind, endpoint, params, current_params, max_pages, per_page,
                   timeout, page, all_data, ret_list, calc, server>>

\* The exchange of a direct get_canvas_data call of such a caller ends.
CompleteSingle(p, o) == GetCanvasDataEnds(p, o) /\ UNCHANGED tool_ret

\* The exchange of one page of get_paginated_data ends in outcome o: the
\* code runs from the await through the rest of the loop body and, when the
\* loop goes on, through the next iteration up to its await.
PageExchangeEnds(p, o) ==
    /\ pc[p] = "awaiting" /\ kind[p] = "paginated"
    /\ LET mr == MakeRequest(endpoint[p], {}, o)
           r == GetCanvasDataResult(endpoint[p], mr)
           data == (CHOOSE x \in r.resp : TRUE).data
           acc == Extend(all_data[LocalsOf(p)], data.items)
           goesOn == /\ ~IsShortPage(data.items, per_page[p])
                     /\ NextPage(page[LocalsOf(p)]) \in PageRange(max_pages[p])
       IN  /\ respLog' = [respLog EXCEPT ![p] = Append(@, o)]
           /\ mrLog' = [mrLog EXCEPT ![p] = Append(@, mr)]
           /\ params' = [params EXCEPT ![p] =
                             IF ~TryAgain(mr, AttemptsMade(p)) /\ r.ok
                                /\ data.shape = "list" /\ goesOn
                             THEN CallerSees(@, SetPage(current_params[LocalsOf(p)],
                                                        NextPage(page[LocalsOf(p)])))
                             ELSE @]
           /\ IF TryAgain(mr, AttemptsMade(p))
              THEN /\ reqLog' = [reqLog EXCEPT ![p] = Append(@, @[Len(@)])]
                   /\ UNCHANGED <<pc, err, inflight, page, current_params, all_data,
                                  ret_list>>
              ELSE IF ~r.ok
              THEN \* the exception of get_canvas_data propagates
                   /\ pc' = [pc EXCEPT ![p] = "raised"]
                   /\ err' = [err EXCEPT ![p] = r.exc]
                   /\ inflight' = [inflight EXCEPT ![p] = @ - 1]
                   /\ UNCHANGED <<page, current_params, all_data, ret_list, reqLog>>
              ELSE IF data.shape = "list"
              THEN /\ all_data' = [all_data EXCEPT ![LocalsOf(p)] = acc]
                   /\ IF goesOn
                      THEN /\ page' = [page EXCEPT ![LocalsOf(p)] = NextPage(@)]
                           /\ current_params' = [current_params EXCEPT ![LocalsOf(p)] =
                                                     SetPage(@, NextPage(page[LocalsOf(p)]))]
                           /\ UNCHANGED ret_list
                           /\ IF ConfigValidate(token)
                              THEN /\ pc' = pc
                                   /\ reqLog' = [reqLog EXCEPT ![p] = Append(@,
                                          Request(endpoint[p],
                                                  SetPage(current_params[LocalsOf(p)],
                                                          NextPage(page[LocalsOf(p)])), {}))]
                                   /\ inflight' = [inflight EXCEPT ![p] = (@ - 1) + 1]
                                   /\ err' = err
                              ELSE /\ pc' = [pc EXCEPT ![p] = "raised"]
                                   /\ err' = [err EXCEPT ![p] = {ValueError}]
                                   /\ inflight' = [inflight EXCEPT ![p] = @ - 1]
                                   /\ UNCHANGED reqLog
                      ELSE /\ pc' = [pc EXCEPT ![p] = "returned"]
                           /\ ret_list' = [ret_list EXCEPT ![p] = acc]
                           /\ inflight' = [inflight EXCEPT ![p] = @ - 1]
                           /\ UNCHANGED <<page, current_params, reqLog, err>>
              ELSE /\ pc' = [pc EXCEPT ![p] = "returned"]
                   /\ ret_list' = [ret_list EXCEPT ![p] =
                          IF data.shape = "dict" THEN OnMapping(all_data[LocalsOf(p)], data)
                          ELSE OnOther(all_data[LocalsOf(p)])]
                   /\ inflight' = [inflight EXCEPT ![p] = @ - 1]
                   /\ UNCHANGED <<page, current_params, all_data, reqLog, err>>
    /\ UNCHANGED <<token, kind, endpoint, max_pages, per_page, timeout, ret_resp,
                   calc, server>>

\* The exchange of one page of a run of such a caller ends.
CompletePage(p, o) == PageExchangeEnds(p, o) /\ UNCHANGED tool_ret

\* The methods of the process-wide canvas_api_client: those of
\* CanvasAPIClient and those it inherits from BaseHTTPClient.
ClientMethods ==
    {"_format_canvas_params", "get_canvas_data", "get_paginated_data", "_build_url",
     "_merge_headers", "_make_request", "get", "post", "put", "delete", "patch"}

\* canvas_api_client.<name>: the bound method, or nothing (AttributeError)
GetAttr(name) == IF name \in ClientMethods THEN {name} ELSE {}

\* The mapping get_course_by_id returns from its except Exception clause.
UnexpectedError(message) == [error |-> "Unexpected Error", message |-> message]

\* A caller invokes the tool handler get_course_by_id(course_id): the code
\* runs to the attribute lookup canvas_api_client.post_graphql_query, whose
\* AttributeError is caught by the except Exception clause, or to the await
\* of the POST the method makes.
GetCourseById(p, course_id) ==
    /\ pc[p] = "idle"
    /\ kind' = [kind EXCEPT ![p] = "course_by_id"]
    /\ IF GetAttr("post_graphql_query") = {}
       THEN /\ pc' = [pc EXCEPT ![p] = "returned"]
            /\ tool_ret' = [tool_ret EXCEPT ![p] =
                                {UnexpectedError("no attribute post_graphql_query")}]
            /\ UNCHANGED <<reqLog, inflight>>
       ELSE /\ pc' = [pc EXCEPT ![p] = "awaiting"]
            /\ reqLog' = [reqLog EXCEPT ![p] =
                              Append(@, Request(<<"graphql">>, <<>>, {}))]
            /\ inflight' = [inflight EXCEPT ![p] = @ + 1]
            /\ UNCHANGED tool_ret
    /\ UNCHANGED <<token, endpoint, params, current_params, max_pages, per_page, timeout,
                   page, all_data, ret_list, ret_resp, err, respLog, mrLog, calc, server>>

\* Course ids tried.
CourseIds == {"Q291", "x"}

\* Caller-supplied params tried: None, and a mapping with page and per_page
\* entries of its own and an include list.
CallerParams ==
    {{}, {<<Entry(Key("page", 0), Prim(9)), Entry(Key("per_page", 0), Prim(9)),
            Entry(Key("include", 0), List(<<Enum(1)>>))>>}}

Next ==
    \/ \E p \in Procs, ep \in Endpoints, prm \in CallerParams, mp \in 1..MaxPages,
          pp \in 1..MaxPerPage :
           CallPaginated(p, ep, prm, mp, pp)
    \/ \E p \in Procs, ep \in Endpoints, prm \in CallerParams, to \in Timeouts :
           CallSingle(p, ep, prm, to)
    \/ \E p \in Procs, course_id \in CourseIds : GetCourseById(p, course_id)
    \/ \E p \in Procs : \E o \in Outcomes(1, StatusesSingle) : CompleteSingle(p, o)
    \/ \E p \in Procs : \E o \in Outcomes(page[p], Statuses) : CompletePage(p, o)

Spec == Init /\ [][Next]_vars

\* An exchange in flight ends.
Completion ==
    \E p \in Procs :
        \/ \E o \in Outcomes(1, StatusesSingle) : CompleteSingle(p, o)
        \/ \E o \in Outcomes(page[p], Statuses) : CompletePage(p, o)

\* Two invocations on the one client at the same time.  The upstream answers
\* with a list, a mapping, a 404 or not at all.
ConcOutcomes(k) ==
    { o \in Outcomes(k, {200, 404}) :
        \/ o.t = "timeout"
        \/ /\ o.t = "resp" /\ o.body.json
           /\ IF o.status = 200 THEN o.body.val.shape = "list" \/ ~o.body.val.hasMessage
              ELSE o.body.val.shape = "dict" /\ o.body.val.hasMessage
           /\ o.body.val.shape \in {"list", "dict"} }

InitConc == ClientInitWith(Procs) /\ token = "tok" /\ calc = NoCalc

NextConc ==
    \/ \E p \in Procs, pp \in 1..MaxPerPage : CallPaginated(p, <<"c">>, {}, ConcPages, pp)
    \/ \E p \in Procs : CallSingle(p, <<"/", "c">>, {}, {})
    \/ \E p \in Procs : \E o \in ConcOutcomes(1) : CompleteSingle(p, o)
    \/ \E p \in Procs : \E o \in ConcOutcomes(page[p]) : CompletePage(p, o)

SpecConc == InitConc /\ [][NextConc]_vars

\* Every exchange ends: httpx answers, fails, or raises its timeout after
\* request_timeout seconds.  Nothing obliges a caller to start a call.
FairSpec == Spec /\ WF_vars(Completion)

(***************************************************************************)
(* server.py: the process serves tool invocations until a signal arrives.  *)
(* A signal that reaches the process after the receiver was closed is not  *)
(* described.                                                              *)
(***************************************************************************)
\* Where signal_handler stands after scope.cancel(): the return statement
\* ends it.
\* (variant: no return, the loop waits for the next signal)
HandlerAfterCancelBroken == "waiting"
HandlerAfterCancel == "done"

\* SIGINT or SIGTERM reaches the process while the receiver is open.
SignalArrives(sig) ==
    /\ server.handler = "waiting" /\ server.main # "returned"
    /\ server.pending < MaxSignals
    /\ server' = [server EXCEPT !.pending = @ + 1]
    /\ UNCHANGED <<token, pc, kind, endpoint, params, current_params, max_pages, per_page,
                   timeout, page, all_data, ret_list, ret_resp, err, reqLog, respLog, mrLog,
                   inflight, tool_ret, calc>>

\* signal_handler: the async for yields a signal; print, scope.cancel(),
\* return.
HandleSignal ==
    /\ server.handler = "waiting" /\ server.pending > 0
    /\ server' = [server EXCEPT !.pending = @ - 1, !.cancels = @ + 1, !.cancelled = TRUE,
                                !.handler = HandlerAfterCancel]
    /\ UNCHANGED <<token, pc, kind, endpoint, params, current_params, max_pages, per_page,
                   timeout, page, all_data, ret_list, ret_resp, err, reqLog, respLog, mrLog,
                   inflight, tool_ret, calc>>

\* The cancellation of the scope reaches an invocation at its await: the
\* invocation is abandoned.
Abandon(p) ==
    /\ server.cancelled /\ pc[p] = "awaiting"
    /\ pc' = [pc EXCEPT ![p] = "cancelled"]
    /\ inflight' = [inflight EXCEPT ![p] = @ - 1]
    /\ UNCHANGED <<token, kind, endpoint, params, current_params, max_pages, per_page,
                   timeout, page, all_data, ret_list, ret_resp, err, reqLog, respLog, mrLog,
                   tool_ret, calc, server>>

\* The cancellation reaches the host task in await mcp.run_stdio_async():
\* once the invocations under it have ended, the task group is left and
\* run_server returns.
ServerCancelled ==
    /\ server.cancelled /\ server.main \in {"serving", "joining"}
    /\ \A p \in Procs : pc[p] # "awaiting"
    /\ server.handler = "done"
    /\ server' = [server EXCEPT !.main = "returned"]
    /\ UNCHANGED <<token, pc, kind, endpoint, params, current_params, max_pages, per_page,
                   timeout, page, all_data, ret_list, ret_resp, err, reqLog, respLog, mrLog,
                   inflight, tool_ret, calc>>

\* mcp.run_stdio_async() returns by itself (standard input is closed): the
\* host task waits at the end of the async with block for signal_handler.
StdioEnds ==
    /\ server.main = "serving" /\ ~server.cancelled
    /\ \A p \in Procs : pc[p] # "awaiting"
    /\ server' = [server EXCEPT !.main = "joining"]
    /\ UNCHANGED <<token, pc, kind, endpoint, params, current_params, max_pages, per_page,
                   timeout, page, all_data, ret_list, ret_resp, err, reqLog, respLog, mrLog,
                   inflight, tool_ret, calc>>

\* The protocol layer dispatches a tool invocation while the server serves.
Dispatch(p, ep) ==
    /\ server.main = "serving" /\ ~server.cancelled
    /\ CallSingle(p, ep, {}, {})

\* The exchange of an invocation ends before any cancellation.
ExchangeEnds(p, o) ==
    /\ server.main = "serving" /\ ~server.cancelled
    /\ CompleteSingle(p, o)

InitServer == ClientInit /\ token = "tok" /\ calc = NoCalc

NextServer ==
    \/ \E sig \in {"SIGINT", "SIGTERM"} : SignalArrives(sig)
    \/ HandleSignal
    \/ \E p \in Procs : Abandon(p)
    \/ ServerCancelled
    \/ StdioEnds
    \/ \E p \in Procs, ep \in Endpoints : Dispatch(p, ep)
    \/ \E p \in Procs : \E o \in ConcOutcomes(1) : ExchangeEnds(p, o)

\* The event loop runs the signal_handler task when a signal is there, and
\* delivers the cancellation of the scope to the tasks inside it.
ShutdownStep == HandleSignal \/ (\E p \in Procs : Abandon(p)) \/ ServerCancelled

SpecServer == InitServer /\ [][NextServer]_vars /\ WF_vars(ShutdownStep)

(***************************************************************************)
(* The tool handler get_courses (tools/courses/get_all_courses.py and      *)
(* tools/courses/get_courses.py) against an upstream that holds a number   *)
(* of courses and serves them in pages, or fails.  calc holds the module   *)
(* the handler is taken from, its arguments limit and per_page, and the    *)
(* number of courses held.                                                 *)
(***************************************************************************)
\* max_pages of a call without limit
NoLimitMaxPages == 20

\* endpoint="courses"
CoursesEndpoint == <<"c">>

\* params_dict = query_params.model_dump(exclude_none=True)
ParamsDict ==
    <<Entry(Key("enrollment_type", 0), Enum(1)), Entry(Key("enrollment_state", 0), Enum(2)),
      Entry(Key("include", 0), List(<<>>)), Entry(Key("exclude_blueprint_courses", 0), Prim(0)),
      Entry(Key("state", 0), Enum(3))>>

\* (limit // per_page) + (1 if limit % per_page > 0 else 0)
LimitPages(limit, pp) == (limit \div pp) + (IF limit % pp > 0 THEN 1 ELSE 0)

\* xs[:limit]
\* (variant: the list is not trimmed)
TrimBroken(xs, limit) == xs
Trim(xs, limit) == IF Len(xs) > limit THEN SubSeq(xs, 1, limit) ELSE xs

\* What a handler returns.  form is "list" (a list of course mappings),
\* "object" (a mapping with the keys in keys) or "text" (a str); a text
\* reporting courses lists them in courses.
ToolResult(form, courses, keys, error, message, status_code) ==
    [form |-> form, courses |-> courses, keys |-> keys, error |-> error,
     message |-> message, status_code |-> status_code]

\* The return of the except HTTPError clause, in either module.
OnHTTPError(module, e) ==
    IF module = "get_all_courses"
    THEN ToolResult("object", <<>>, {"error", "message", "status_code"}, "HTTP Error",
                    e.msg, e.status_code)
    ELSE ToolResult("text", <<>>, {}, "Canvas API Error", e.msg, {})

\* The return of the except Exception clause, in either module.
OnException(module, e) ==
    IF module = "get_all_courses"
    THEN ToolResult("object", <<>>, {"error", "message"}, "Unexpected Error", e.msg, {})
    ELSE ToolResult("text", <<>>, {}, "Unexpected error getting courses", e.msg, {})

\* The return of the try block once courses is known: the filtered list, or
\* the text format_course_response makes of it.
OnCourses(module, courses) ==
    ToolResult(IF module = "get_all_courses" THEN "list" ELSE "text", courses, {}, "",
               Msg("", Len(courses), <<>>), {})

\* courses as the branch taken computes it from what the client returned.
CoursesOf(limit, kindv, retList, retResp) ==
    IF kindv = "paginated"
    THEN IF limit = {} THEN retList ELSE Trim(retList, CHOOSE l \in limit : TRUE)
    ELSE LET data == (CHOOSE r \in retResp : TRUE).data
         IN  IF data.shape = "list" THEN Trim(data.items, CHOOSE l \in limit : TRUE)
             ELSE IF data.shape = "dict" THEN <<data>>
             ELSE <<>>

\* What the handler returns once the client call has ended in (pcv, ...),
\* and nothing while the call is awaiting.
ToolReturn(module, limit, pcv, kindv, retList, retResp, errv) ==
    IF pcv = "raised"
    THEN LET e == CHOOSE x \in errv : TRUE
         IN  {IF e.type = "HTTPError" THEN OnHTTPError(module, e) ELSE OnException(module, e)}
    ELSE IF pcv = "returned"
    THEN {OnCourses(module, CoursesOf(limit, kindv, retList, retResp))}
    ELSE {}

\* The page an upstream holding n courses serves for page k of size q.
WellFormedPage(k, q, n) ==
    LET from == (k - 1) * q
        len == IF n - from > q THEN q ELSE IF n - from > 0 THEN n - from ELSE 0
    IN  [t |-> "resp", status |-> 200,
         body |-> [json |-> TRUE,
                   val |-> Value("list", [i \in 1..len |-> Rec(k, i)], FALSE, <<k, 0>>)]]

\* What the exchange of request req can end in: the page asked for, a
\* timeout, a 404 with a message, a 500 that is not JSON, or an httpx
\* exception no clause catches.
ToolOutcomes(req, n) ==
    LET k == IF req.page = {} THEN 1 ELSE CHOOSE x \in req.page : TRUE
        q == CHOOSE x \in req.per_page : TRUE
    IN  {WellFormedPage(k, q, n)}
        \cup { o \in Outcomes(k, {404, 500}) :
                 \/ o.t \in {"timeout", "other"}
                 \/ o.t = "resp" /\ o.status = 404 /\ o.body.json
                    /\ o.body.val.shape = "dict" /\ o.body.val.hasMessage
                 \/ o.t = "resp" /\ o.status = 500 /\ ~o.body.json }

Modules == {"get_all_courses", "get_courses"}
Limits == {{}} \cup { {l} : l \in 1..MaxLimit }
CourseCounts == 0..MaxCourses \cup {NoLimitMaxPages + 1}

InitTool ==
    /\ ClientInit
    /\ calc \in { [op |-> "tool", module |-> m, limit |-> l, per_page |-> pp, held |-> n] :
                   m \in Modules, l \in Limits, pp \in 1..MaxPerPage, n \in CourseCounts }

\* The protocol layer invokes get_courses(query, display_fields, limit,
\* per_page): the handler runs to the await of its first exchange, or to its
\* return when the client raises at once.
GetCourses(p) ==
    /\ calc.op = "tool" /\ pc[p] = "idle" /\ kind[p] = "none"
    /\ IF calc.limit = {}
       THEN GetPaginatedDataCall(p, CoursesEndpoint, {ParamsDict}, NoLimitMaxPages,
                                 calc.per_page)
       ELSE LET limit == CHOOSE l \in calc.limit : TRUE
            IN  IF limit =< calc.per_page
                THEN GetCanvasDataCall(p, CoursesEndpoint,
                                       {DictSet(ParamsDict, Key("per_page", 0), Prim(limit))},
                                       {})
                ELSE GetPaginatedDataCall(p, CoursesEndpoint, {ParamsDict},
                                          LimitPages(limit, calc.per_page), calc.per_page)
    /\ tool_ret' = [tool_ret EXCEPT ![p] =
                        ToolReturn(calc.module, calc.limit, pc'[p], kind'[p], ret_list'[p],
                                   ret_resp'[p], err'[p])]

\* The exchange the handler awaits ends in outcome o: the client and then
\* the handler run to the next await or to the handler's return.
GetCoursesResume(p, o) ==
    /\ calc.op = "tool" /\ pc[p] = "awaiting"
    /\ IF kind[p] = "paginated" THEN PageExchangeEnds(p, o) ELSE GetCanvasDataEnds(p, o)
    /\ tool_ret' = [tool_ret EXCEPT ![p] =
                        ToolReturn(calc.module, calc.limit, pc'[p], kind'[p], ret_list'[p],
                                   ret_resp'[p], err'[p])]

NextTool ==
    \/ \E p \in Procs : GetCourses(p)
    \/ \E p \in Procs :
           /\ reqLog[p] # <<>>
           /\ \E o \in ToolOutcomes(reqLog[p][Len(reqLog[p])], calc.held) :
                  GetCoursesResume(p, o)

SpecTool == InitTool /\ [][NextTool]_vars

(***************************************************************************)
(* _build_url on its own: a client is constructed on a base URL and builds *)
(* the URL of an endpoint.                                                 *)
(***************************************************************************)
Chars == {"/", "a"}
Strs == UNION { [1..n -> Chars] : n \in 0..MaxStrLen }

InitUrl ==
    /\ ClientInit /\ token = "tok"
    /\ calc \in { [op |-> "url", stage |-> "args", base |-> b, ep |-> e,
                   self_base_url |-> <<>>, url |-> <<>>] : b \in Strs, e \in Strs }

\* BaseHTTPClient(base_url)
Construct ==
    /\ calc.op = "url" /\ calc.stage = "args"
    /\ calc' = [calc EXCEPT !.stage = "client", !.self_base_url = InitBaseUrl(calc.base)]
    /\ UNCHANGED clientVars

\* client._build_url(endpoint)
BuildUrlStep ==
    /\ calc.op = "url" /\ calc.stage = "client"
    /\ calc' = [calc EXCEPT !.stage = "built",
                            !.url = BuildUrlWith(calc.self_base_url, calc.ep)]
    /\ UNCHANGED clientVars

NextUrl == Construct \/ BuildUrlStep

SpecUrl == InitUrl /\ [][NextUrl]_vars

(***************************************************************************)
(* _format_canvas_params on its own: a parameter mapping is formatted, and *)
(* the result is formatted again.                                          *)
(***************************************************************************)
ParamKeys == {Key("include", 0), Key("include", 1), Key("state", 0), Key("q", 0)}
ParamValues == {PNone, Prim(1), Enum(1), List(<<>>), List(<<Prim(1)>>),
                List(<<Enum(1), Prim(2)>>)}
ParamEntries == { Entry(k, v) : k \in ParamKeys, v \in ParamValues }
ParamDicts ==
    { d \in UNION { [1..n -> ParamEntries] : n \in 0..MaxParams } :
        \A i, j \in 1..Len(d) : d[i].k = d[j].k => i = j }

InitFormat ==
    /\ ClientInit /\ token = "tok"
    /\ calc \in { [op |-> "format", stage |-> "x", x |-> d, fx |-> <<>>, ffx |-> <<>>] :
                   d \in ParamDicts }

\* fx = _format_canvas_params(x)
FormatOnce ==
    /\ calc.op = "format" /\ calc.stage = "x"
    /\ calc' = [calc EXCEPT !.stage = "fx", !.fx = FormatCanvasParams(calc.x)]
    /\ UNCHANGED clientVars

\* ffx = _format_canvas_params(fx)
FormatAgain ==
    /\ calc.op = "format" /\ calc.stage = "fx"
    /\ calc' = [calc EXCEPT !.stage = "ffx", !.ffx = FormatCanvasParams(calc.fx)]
    /\ UNCHANGED clientVars

NextFormat == FormatOnce \/ FormatAgain

SpecFormat == InitFormat /\ [][NextFormat]_vars

(***************************************************************************)
(* _merge_headers on its own: a client with stored default headers merges  *)
(* the extra headers of successive requests.                               *)
(***************************************************************************)
HeaderKeys == {"Authorization", "Content-Type", "X-Trace"}
HeaderVals == {"u", "v"}
HeaderMaps == UNION { [K -> HeaderVals] : K \in SUBSET HeaderKeys }

InitHeaders ==
    /\ ClientInit /\ token = "tok"
    /\ calc \in { [op |-> "headers", n |-> 0, orig |-> d, default_headers |-> d,
                   extra |-> {}, merged |-> <<>>] : d \in HeaderMaps }

\* client._merge_headers(x)
MergeStep(x) ==
    /\ calc.op = "headers" /\ calc.n < MaxMerges
    /\ LET r == MergeHeaders(calc.default_headers, x)
       IN  calc' = [calc EXCEPT !.n = @ + 1, !.extra = x, !.merged = r.headers,
                                !.default_headers = r.default_headers]
    /\ UNCHANGED clientVars

NextHeaders == \E x \in {{}} \cup { {h} : h \in HeaderMaps } : MergeStep(x)

SpecHeaders == InitHeaders /\ [][NextHeaders]_vars

(***************************************************************************)
(* Vocabulary of the properties.                                           *)
(***************************************************************************)
Paginated(p) == kind[p] = "paginated"
Terminated(p) == pc[p] \in {"returned", "raised"}

\* What the upstream did in an exchange, read off the outcome alone.
Is2xx(o) == o.t = "resp" /\ o.status >= 200 /\ o.status < 300
ShapeOf(o) == IF o.body.json THEN o.body.val.shape ELSE "text"
IsListPage(o) == Is2xx(o) /\ ShapeOf(o) = "list"
IsMappingPage(o) == Is2xx(o) /\ ShapeOf(o) = "dict"
IsOtherPage(o) == Is2xx(o) /\ ShapeOf(o) \notin {"list", "dict"}
IsFailure(o) == ~Is2xx(o)
ItemsOf(o) == o.body.val.items

\* The records of the list pages among the first n exchanges, in order.
RECURSIVE Received(_, _)
Received(log, n) ==
    IF n = 0 THEN <<>>
    ELSE Received(log, n - 1) \o (IF IsListPage(log[n]) THEN ItemsOf(log[n]) ELSE <<>>)

\* The page numbers asked for are 1, 2, ..., n.
PagesInOrder(p, n) ==
    /\ Len(reqLog[p]) = n
    /\ \A i \in 1..n : reqLog[p][i].page = {i} /\ reqLog[p][i].per_page = {per_page[p]}

\* C1: a get_paginated_data run never issues more than max_pages requests,
\* whatever the upstream answers, and it terminates (returns or raises).
C1_BoundedAndTerminates ==
    /\ [](\A p \in Procs : Paginated(p) =>
              /\ Len(reqLog[p]) =< max_pages[p]
              /\ pc[p] = "awaiting" \/ Terminated(p))
    /\ \A p \in Procs : [](Paginated(p) => <>Terminated(p))

\* C1 witness: a run against an upstream that never sent a short page has
\* ended after max_pages >= 2 requests.
C1_Witness ==
    \E p \in Procs :
        /\ Paginated(p) /\ Terminated(p) /\ max_pages[p] >= 2
        /\ Len(respLog[p]) = max_pages[p]
        /\ \A i \in 1..Len(respLog[p]) :
               IsListPage(respLog[p][i]) /\ Len(ItemsOf(respLog[p][i])) >= per_page[p]

\* Every page so far was a list of exactly per_page records.
AllExactlyFull(p) ==
    /\ respLog[p] # <<>>
    /\ \A i \in 1..Len(respLog[p]) :
           IsListPage(respLog[p][i]) /\ Len(ItemsOf(respLog[p][i])) = per_page[p]

\* C2: while every page is a list of exactly per_page records, the run goes
\* on to the next page until max_pages pages were fetched, and then returns
\* max_pages * per_page records after exactly max_pages requests 1..max_pages.
C2_FullPages ==
    \A p \in Procs :
        (Paginated(p) /\ AllExactlyFull(p)) =>
            IF Len(respLog[p]) < max_pages[p]
            THEN pc[p] = "awaiting" /\ PagesInOrder(p, Len(respLog[p]) + 1)
            ELSE /\ pc[p] = "returned"
                 /\ Len(respLog[p]) = max_pages[p]
                 /\ PagesInOrder(p, max_pages[p])
                 /\ Len(ret_list[p]) = max_pages[p] * per_page[p]

\* C2 witness: a run of max_pages >= 2 exactly full pages has returned.
C2_Witness ==
    \E p \in Procs :
        /\ Paginated(p) /\ AllExactlyFull(p) /\ pc[p] = "returned"
        /\ max_pages[p] >= 2 /\ per_page[p] >= 2
        /\ Len(ret_list[p]) = max_pages[p] * per_page[p]

\* Page k, the last one received, is the first short list page.
FirstShortAt(p, k) ==
    /\ k = Len(respLog[p]) /\ k >= 1 /\ k =< max_pages[p]
    /\ \A i \in 1..k : IsListPage(respLog[p][i])
    /\ \A i \in 1..(k - 1) : Len(ItemsOf(respLog[p][i])) >= per_page[p]
    /\ Len(ItemsOf(respLog[p][k])) < per_page[p]

\* C3: when page k is the first list page shorter than per_page, the run
\* has returned after exactly k requests (pages 1..k) the concatenation of
\* pages 1..k, in page order and in the upstream's order within a page.
C3_ShortPageStops ==
    \A p \in Procs : \A k \in 1..Len(respLog[p]) :
        (Paginated(p) /\ FirstShortAt(p, k)) =>
            /\ pc[p] = "returned"
            /\ PagesInOrder(p, k)
            /\ ret_list[p] = Received(respLog[p], k)

\* C3 witness: two full pages and a short, non-empty third one were
\* returned as one list.
C3_Witness ==
    \E p \in Procs :
        /\ Paginated(p) /\ FirstShortAt(p, 3) /\ per_page[p] = 2
        /\ Len(ItemsOf(respLog[p][3])) = 1
        /\ pc[p] = "returned" /\ Len(ret_list[p]) >= 5

\* C4: a page whose body is a mapping ends the run at once: it is the last
\* exchange, no further request is issued, and the call returns the
\* one-element list holding just that mapping (after exactly one request
\* when the page is page 1).
C4_MappingShortCircuit ==
    \A p \in Procs : \A i \in 1..Len(respLog[p]) :
        (Paginated(p) /\ IsMappingPage(respLog[p][i])) =>
            /\ i = Len(respLog[p])
            /\ Len(reqLog[p]) = i
            /\ pc[p] = "returned"
            /\ ret_list[p] = <<respLog[p][i].body.val>>

\* C4 witness: a mapping arrived on page 2, after a page of records.
C4_Witness ==
    \E p \in Procs :
        /\ Paginated(p) /\ Len(respLog[p]) = 2
        /\ IsListPage(respLog[p][1]) /\ ItemsOf(respLog[p][1]) # <<>>
        /\ IsMappingPage(respLog[p][2])
        /\ pc[p] = "returned" /\ Len(ret_list[p]) = 1

\* C5 (as claimed): a page whose body is neither a list nor a mapping ends
\* the run at once with the accumulator as it stands, that is, the records
\* of all earlier list pages.
C5_OtherBodyKeepsAccumulator ==
    \A p \in Procs : \A i \in 1..Len(respLog[p]) :
        (Paginated(p) /\ IsOtherPage(respLog[p][i])) =>
            /\ i = Len(respLog[p])
            /\ pc[p] = "returned"
            /\ ret_list[p] = Received(respLog[p], i - 1)

\* C6: within one run the pages are asked for in the order 1, 2, 3, ...,
\* request n+1 exists only once n exchanges have ended, and at most one
\* exchange of the run is in flight.
C6_Sequential ==
    \A p \in Procs :
        /\ inflight[p] \in {0, 1}
        /\ Len(reqLog[p]) = Len(respLog[p]) + inflight[p]
        /\ Paginated(p) => \A i \in 1..Len(reqLog[p]) : reqLog[p][i].page = {i}

\* C6 witness: the third page of a run is in flight.
C6_Witness ==
    \E p \in Procs :
        Paginated(p) /\ Len(reqLog[p]) = 3 /\ pc[p] = "awaiting" /\ inflight[p] = 1

\* C7: when the fetch of page k fails (a timeout, a network failure or a
\* status outside 2xx), the run has raised an HTTPError that carries the
\* failed exchange's status code if it has one, nothing was returned, and
\* page k is the last page asked for.
C7_FailurePropagates ==
    \A p \in Procs : \A k \in 1..Len(respLog[p]) :
        LET o == respLog[p][k] IN
        (Paginated(p) /\ IsFailure(o) /\ o.t \in {"resp", "timeout", "network"}) =>
            /\ k = Len(respLog[p]) /\ Len(reqLog[p]) = k
            /\ pc[p] = "raised"
            /\ ret_list[p] = <<>>
            /\ \E e \in err[p] :
                   /\ e.type = "HTTPError"
                   /\ e.status_code = (IF o.t = "resp" THEN {o.status} ELSE {})
                   /\ o.t = "timeout" => e.msg.text = "Request timeout after"
                   /\ o.t = "network" => e.msg.text = "Network error"

\* C7 witness: page 2 timed out after page 1 had delivered records.
C7_Witness ==
    \E p \in Procs :
        /\ Paginated(p) /\ Len(respLog[p]) = 2
        /\ IsListPage(respLog[p][1]) /\ ItemsOf(respLog[p][1]) # <<>>
        /\ respLog[p][2].t = "timeout"
        /\ pc[p] = "raised" /\ all_data[p] # <<>>

\* C8: with an empty token every started call has raised the ValueError of
\* Config.validate, which is no HTTPError, and no exchange was begun.
C8_EmptyTokenNoRequest ==
    \A p \in Procs :
        (token = "" /\ kind[p] \in {"paginated", "single"}) =>
            /\ pc[p] = "raised"
            /\ err[p] # {} /\ \A e \in err[p] : e.type = "ValueError" /\ e.type # "HTTPError"
            /\ reqLog[p] = <<>> /\ respLog[p] = <<>> /\ inflight[p] = 0

\* C8 witness: a get_paginated_data call was made with the token empty.
C8_Witness ==
    \E p \in Procs : token = "" /\ Paginated(p) /\ pc[p] = "raised"

\* C9: the HTTPError that leaves get_canvas_data has the status_code, url
\* and response_data of the one _make_request raised; its message is the
\* authentication / forbidden / not-found text exactly for 401 / 403 / 404,
\* and otherwise the error is the original one.
C9_RewrapKeepsFields ==
    \A p \in Procs :
        (pc[p] = "raised" /\ mrLog[p] # <<>>) =>
            \A e \in mrLog[p][Len(mrLog[p])].exc : \A f \in err[p] :
                e.type = "HTTPError" =>
                    /\ f.type = "HTTPError"
                    /\ f.status_code = e.status_code
                    /\ f.url = e.url
                    /\ f.response_data = e.response_data
                    /\ (f.msg # e.msg) <=> (e.status_code \in {{401}, {403}, {404}})
                    /\ e.status_code = {401} => f.msg.text = "Canvas API authentication failed"
                    /\ e.status_code = {403} => f.msg.text = "Canvas API access forbidden"
                    /\ e.status_code = {404} => f.msg.text = "Canvas API endpoint not found"
                    /\ e.status_code \notin {{401}, {403}, {404}} => f = e

\* C9 witness: a 401 answer reached the caller of get_canvas_data with the
\* authentication message and the status code 401.
C9_Witness ==
    \E p \in Procs :
        /\ kind[p] = "single" /\ pc[p] = "raised"
        /\ \E f \in err[p] :
               f.status_code = {401} /\ f.msg.text = "Canvas API authentication failed"

\* C10: for every completed exchange _make_request returned an HTTPResponse
\* exactly when the status was in [200,300), and otherwise raised an
\* HTTPError with that status, the parsed body and the request URL; every
\* HTTPResponse returned satisfies is_success.
C10_ResponseIffSuccess ==
    \A p \in Procs : \A i \in 1..Len(mrLog[p]) :
        LET o == respLog[p][i]
            mr == mrLog[p][i]
        IN  /\ mr.ok <=> Is2xx(o)
            /\ \A r \in mr.resp :
                   r.status_code = o.status /\ r.status_code \in 200..299
            /\ (o.t = "resp" /\ ~mr.ok) =>
                   \E e \in mr.exc :
                       /\ e.type = "HTTPError"
                       /\ e.status_code = {o.status}
                       /\ e.response_data =
                              {IF o.body.json THEN o.body.val
                               ELSE Value("text", <<>>, FALSE, o.body.val.id)}
                       /\ e.url = {reqLog[p][i].url}

\* C10 witness: _make_request has both returned a response and raised for a
\* completed exchange (status 300) whose body is a non-empty list.
C10_Witness ==
    \E p \in Procs :
        /\ Len(mrLog[p]) = 2
        /\ respLog[p][1].status = 200 /\ mrLog[p][1].ok
        /\ respLog[p][2].status = 300 /\ ~mrLog[p][2].ok
        /\ ShapeOf(respLog[p][2]) = "list" /\ ItemsOf(respLog[p][2]) # <<>>

\* C11: a transport timeout leaves _make_request as an HTTPError without a
\* status code, with the request URL and a message naming the timeout the
\* exchange ran under; any other connection failure as an HTTPError without
\* a status code, with the request URL and the 'Network error:' message;
\* the call that made the exchange then raises and returns nothing.
C11_TransportFailures ==
    \A p \in Procs : \A i \in 1..Len(mrLog[p]) :
        LET o == respLog[p][i]
            mr == mrLog[p][i]
        IN  o.t \in {"timeout", "network"} =>
                /\ ~mr.ok /\ mr.resp = {} /\ mr.exc # {}
                /\ \A e \in mr.exc :
                       /\ e.type = "HTTPError"
                       /\ e.status_code = {}
                       /\ e.url = {reqLog[p][i].url}
                       /\ o.t = "timeout" =>
                              /\ e.msg.text = "Request timeout after"
                              /\ e.msg.num = reqLog[p][i].timeout
                       /\ o.t = "network" => e.msg.text = "Network error"
                /\ pc[p] = "raised" /\ ret_resp[p] = {} /\ ret_list[p] = <<>>
                /\ err[p] = mr.exc

\* C11 witness: a call with the timeout override 5 timed out, and the
\* message names 5.
C11_Witness ==
    \E p \in Procs :
        /\ kind[p] = "single" /\ timeout[p] = {5} /\ pc[p] = "raised"
        /\ Len(respLog[p]) = 1 /\ respLog[p][1].t = "timeout"
        /\ \E e \in err[p] : e.msg.num = 5 /\ e.status_code = {}

\* C12: there are no retries: a get_canvas_data call makes at most one
\* exchange, a pagination run makes one exchange per page it asks for (no
\* page twice), every exchange is one invocation of _make_request, and no
\* exchange follows one that failed.
C12_NoRetries ==
    \A p \in Procs :
        /\ Len(mrLog[p]) = Len(respLog[p])
        /\ kind[p] = "single" => Len(reqLog[p]) =< 1
        /\ Paginated(p) =>
               /\ Len(reqLog[p]) =< page[p]
               /\ \A i, j \in 1..Len(reqLog[p]) :
                      reqLog[p][i].page = reqLog[p][j].page => i = j
        /\ \A i \in 1..Len(respLog[p]) :
               IsFailure(respLog[p][i]) => Len(reqLog[p]) = i

\* C12 witness: the second page of a run failed with status 500 and the run
\* ended with two exchanges made.
C12_Witness ==
    \E p \in Procs :
        /\ Paginated(p) /\ pc[p] = "raised" /\ Len(reqLog[p]) = 2
        /\ Len(respLog[p]) = 2 /\ respLog[p][2].status = 500

\* C19 (as claimed): the timeout an exchange runs under is the per-call
\* override whenever one is provided, and the client's default only when
\* none is provided.
C19_OverrideWins ==
    \A p \in Procs : \A i \in 1..Len(reqLog[p]) :
        kind[p] = "single" =>
            reqLog[p][i].timeout =
                (IF timeout[p] = {} THEN CANVAS_TIMEOUT ELSE CHOOSE v \in timeout[p] : TRUE)

\* C17: the URL built is the base URL without its trailing slashes, one
\* slash, and the endpoint without its leading slashes.
C17_UrlJoin ==
    (calc.op = "url" /\ calc.stage = "built") =>
        \E n \in 0..Len(calc.base), m \in 0..Len(calc.ep) :
            /\ \A j \in (n + 1)..Len(calc.base) : calc.base[j] = "/"
            /\ n > 0 => calc.base[n] # "/"
            /\ \A j \in 1..m : calc.ep[j] = "/"
            /\ m < Len(calc.ep) => calc.ep[m + 1] # "/"
            /\ calc.url = SubSeq(calc.base, 1, n) \o <<"/">>
                              \o SubSeq(calc.ep, m + 1, Len(calc.ep))

\* C17 witness: two slashes before the endpoint and one after the base
\* were joined into a single one.
C17_Witness ==
    /\ calc.op = "url" /\ calc.stage = "built"
    /\ calc.base = <<"a", "/">> /\ calc.ep = <<"/", "/">>
    /\ calc.url = <<"a", "/">>

\* C18: the merged headers hold every default header and every extra
\* header and nothing else, a key present in both has the extra value, and
\* the client's stored default headers are what they were at construction.
C18_HeaderMerge ==
    (calc.op = "headers" /\ calc.n >= 1) =>
        LET d == calc.orig
            e == IF calc.extra = {} THEN <<>> ELSE CHOOSE h \in calc.extra : TRUE
            m == calc.merged
        IN  /\ DOMAIN m = DOMAIN d \cup DOMAIN e
            /\ \A k \in DOMAIN e : m[k] = e[k]
            /\ \A k \in DOMAIN d \ DOMAIN e : m[k] = d[k]
            /\ calc.default_headers = d

\* C18 witness: a second merge overrode a default header.
C18_Witness ==
    /\ calc.op = "headers" /\ calc.n = 2
    /\ \E h \in calc.extra :
           /\ "Authorization" \in DOMAIN h \cap DOMAIN calc.orig
           /\ h["Authorization"] # calc.orig["Authorization"]
           /\ calc.merged["Authorization"] = h["Authorization"]

\* The entries of x under an array-parameter key with a list value.
ArrayListEntries(x) ==
    { e \in AsMap(x) : e.k.br = 0 /\ e.k.name \in ArrayKeys /\ e.v.t = "list" }

\* The list with its enum members reduced to their values.
Primitives(items) == [i \in 1..Len(items) |-> Prim(items[i].v)]

\* What the claim states of the output fx for the entry e of the input.
ArrayEntryFormatted(e, fx) ==
    /\ e.v.items # <<>> => DictGet(fx, Bracketed(e.k)) = {List(Primitives(e.v.items))}
    /\ e.v.items = <<>> => DictGet(fx, Bracketed(e.k)) = {}
    /\ DictGet(fx, e.k) = {}

\* C15 (as stated): for every array-parameter key whose value is a list, the
\* output holds key[] mapped to the primitive values exactly when the list
\* is non-empty, and never the bare key.
C15_ArrayParams ==
    (calc.op = "format" /\ calc.stage # "x") =>
        \A e \in ArrayListEntries(calc.x) : ArrayEntryFormatted(e, calc.fx)

\* C15 (amended): the same, for every such key whose name with the suffix
\* is not itself a key of the input mapping.
C15_ArrayParamsNoLiteral ==
    (calc.op = "format" /\ calc.stage # "x") =>
        \A e \in ArrayListEntries(calc.x) :
            DictGet(calc.x, Bracketed(e.k)) = {} => ArrayEntryFormatted(e, calc.fx)

\* C15 witness: a list with an enum member under include was formatted,
\* next to an empty list under state.
C15_Witness ==
    /\ calc.op = "format" /\ calc.stage = "fx"
    /\ DictGet(calc.x, Key("include", 0)) = {List(<<Enum(1), Prim(2)>>)}
    /\ DictGet(calc.x, Key("state", 0)) = {List(<<>>)}
    /\ DictGet(calc.fx, Key("include", 1)) = {List(<<Prim(1), Prim(2)>>)}

\* No value of x is an enum member or holds one.
AlreadyPrimitive(x) ==
    \A e \in AsMap(x) :
        e.v.t # "enum" /\ \A i \in 1..Len(e.v.items) : e.v.items[i].t # "enum"

\* C16: formatting the formatted mapping of an already-primitive mapping
\* gives the same mapping.
C16_Idempotent ==
    (calc.op = "format" /\ calc.stage = "ffx" /\ AlreadyPrimitive(calc.x)) =>
        AsMap(calc.ffx) = AsMap(calc.fx)

\* C16 witness: an already-primitive mapping with a list under an
\* array-parameter key was formatted twice, the first pass renaming the key.
C16_Witness ==
    /\ calc.op = "format" /\ calc.stage = "ffx" /\ AlreadyPrimitive(calc.x)
    /\ DictGet(calc.x, Key("include", 0)) = {List(<<Prim(1)>>)}
    /\ DictGet(calc.fx, Key("include", 1)) = {List(<<Prim(1)>>)}
    /\ AsMap(calc.fx) # AsMap(calc.x)

\* C14: every request of get_paginated_data carries per_page equal to the
\* per_page argument and page equal to the number of the page fetched,
\* whatever the caller put under these keys.
C14_PageParams ==
    \A p \in Procs : Paginated(p) =>
        \A i \in 1..Len(reqLog[p]) :
            /\ DictGet(reqLog[p][i].params, Key("per_page", 0)) = {Prim(per_page[p])}
            /\ DictGet(reqLog[p][i].params, Key("page", 0)) = {Prim(i)}

\* C14 witness: the caller gave page and per_page entries of its own and a
\* second page was requested.
C14_Witness ==
    \E p \in Procs :
        /\ Paginated(p) /\ Len(reqLog[p]) >= 2
        /\ \E d \in params[p] :
               /\ DictGet(d, Key("page", 0)) = {Prim(9)}
               /\ DictGet(d, Key("per_page", 0)) = {Prim(9)}
        /\ per_page[p] # 9
        /\ DictGet(reqLog[p][2].params, Key("page", 0)) = {Prim(2)}

\* The arguments of invocation p, and the configuration it reads.
Args(p) ==
    [kind |-> kind[p], endpoint |-> endpoint[p], params |-> params[p],
     max_pages |-> max_pages[p], per_page |-> per_page[p], timeout |-> timeout[p],
     token |-> token]

\* An invocation with arguments a run alone: where it stands after its call.
AloneStart(a) ==
    LET cp == IF a.kind = "paginated"
              THEN SetPage(SetPerPage(OrEmpty(a.params), a.per_page), 1)
              ELSE OrEmpty(a.params)
        L == [pc |-> "idle", page |-> 0, cp |-> <<>>, all_data |-> <<>>, ret_list |-> <<>>,
              ret_resp |-> {}, err |-> {}, reqs |-> <<>>]
    IN  IF a.kind = "none" THEN L
        ELSE IF ~ConfigValidate(a.token)
        THEN [L EXCEPT !.pc = "raised", !.err = {ValueError}, !.cp = cp,
                       !.page = IF a.kind = "paginated" THEN 1 ELSE 0]
        ELSE [L EXCEPT !.pc = "awaiting", !.cp = cp,
                       !.page = IF a.kind = "paginated" THEN 1 ELSE 0,
                       !.reqs = <<Request(a.endpoint, cp, a.timeout)>>]

\* An invocation run alone: where it stands after one more exchange ended in o.
AloneStep(a, L, o) ==
    LET mr == MakeRequest(a.endpoint, a.timeout, o)
        r == GetCanvasDataResult(a.endpoint, mr)
        data == (CHOOSE x \in r.resp : TRUE).data
        acc == Extend(L.all_data, data.items)
        cp == SetPage(L.cp, NextPage(L.page))
    IN  IF L.pc # "awaiting" THEN L
        ELSE IF ~r.ok THEN [L EXCEPT !.pc = "raised", !.err = r.exc]
        ELSE IF a.kind = "single" THEN [L EXCEPT !.pc = "returned", !.ret_resp = r.resp]
        ELSE IF data.shape = "dict"
        THEN [L EXCEPT !.pc = "returned", !.ret_list = OnMapping(L.all_data, data)]
        ELSE IF data.shape # "list"
        THEN [L EXCEPT !.pc = "returned", !.ret_list = OnOther(L.all_data)]
        ELSE IF IsShortPage(data.items, a.per_page) \/ NextPage(L.page) \notin PageRange(a.max_pages)
        THEN [L EXCEPT !.pc = "returned", !.all_data = acc, !.ret_list = acc]
        ELSE IF ~ConfigValidate(a.token)
        THEN [L EXCEPT !.pc = "raised", !.err = {ValueError}, !.all_data = acc,
                       !.page = NextPage(L.page), !.cp = cp]
        ELSE [L EXCEPT !.all_data = acc, !.page = NextPage(L.page), !.cp = cp,
                       !.reqs = Append(L.reqs, Request(a.endpoint, cp, {}))]

\* An invocation run alone against the first n of the upstream answers outs.
RECURSIVE AloneRun(_, _, _)
AloneRun(a, outs, n) ==
    IF n = 0 THEN AloneStart(a) ELSE AloneStep(a, AloneRun(a, outs, n - 1), outs[n])

\* C13: whatever the interleaving, the requests of each invocation and its
\* result are those of the same invocation run alone against the same
\* upstream answers.
C13_Isolation ==
    \A p \in Procs : pc[p] # "off" =>
        LET L == AloneRun(Args(p), respLog[p], Len(respLog[p]))
        IN  /\ reqLog[p] = L.reqs
            /\ pc[p] = L.pc
            /\ ret_list[p] = L.ret_list
            /\ ret_resp[p] = L.ret_resp
            /\ err[p] = L.err

\* C13 witness: two paginated invocations have both fetched a second page
\* and ended with different results.
C13_Witness ==
    /\ \A p \in Procs : Paginated(p) /\ Len(respLog[p]) = 2 /\ pc[p] = "returned"
    /\ ret_list[1] # ret_list[2]
    /\ ret_list[1] # <<>> /\ ret_list[2] # <<>>

\* C20 (as stated): a call of get_course_by_id with a valid configuration
\* reaches the remote API through the client's GraphQL call, and what it
\* returns without an exchange having failed is not an error mapping.
C20_CourseByIdReachesApi ==
    \A p \in Procs :
        (kind[p] = "course_by_id" /\ ConfigValidate(token)) =>
            /\ Len(reqLog[p]) >= 1
            /\ \A r \in tool_ret[p] : Len(respLog[p]) = 0 => r.error # "Unexpected Error"

\* C24 (as stated): whenever a get_paginated_data run has returned, every
\* record of every list page it received is in the returned sequence.
C24_NothingDiscarded ==
    \A p \in Procs :
        (Paginated(p) /\ pc[p] = "returned") =>
            LET got == Received(respLog[p], Len(respLog[p]))
            IN  \A i \in 1..Len(got) : \E j \in 1..Len(ret_list[p]) : ret_list[p][j] = got[i]

\* C25: an exchange whose body is not JSON ends like any other: with a 2xx
\* status _make_request returns an HTTPResponse whose data is the text, with
\* another status it raises the HTTPError of that status with the text as
\* response_data.
C25_MalformedBodyIsText ==
    \A p \in Procs : \A i \in 1..Len(mrLog[p]) :
        LET o == respLog[p][i]
            mr == mrLog[p][i]
        IN  (o.t = "resp" /\ ~o.body.json) =>
                /\ Is2xx(o) => mr.ok /\ \A r \in mr.resp : r.data.shape = "text"
                /\ ~Is2xx(o) =>
                       /\ ~mr.ok
                       /\ \A e \in mr.exc :
                              /\ e.type = "HTTPError" /\ e.status_code = {o.status}
                              /\ e.response_data # {}
                              /\ \A d \in e.response_data : d.shape = "text"

\* C25 witness: a call was answered 404 with a body that is not JSON and
\* raised the HTTPError whose response_data is the text.
C25_Witness ==
    \E p \in Procs :
        /\ Len(respLog[p]) >= 1 /\ pc[p] \in {"returned", "raised"}
        /\ LET o == respLog[p][Len(respLog[p])]
           IN  /\ o.t = "resp" /\ ~o.body.json /\ o.status = 404
               /\ \E e \in err[p] : \E d \in e.response_data : d.shape = "text"

\* C26: an HTTPError carries a status code exactly when the exchange it
\* comes from completed with a non-2xx response, and then that response's
\* status; the rewrap keeps it; a configuration failure is a ValueError.
C26_StatusIffResponse ==
    \A p \in Procs :
        /\ \A i \in 1..Len(mrLog[p]) : \A e \in mrLog[p][i].exc :
               e.type = "HTTPError" =>
                   e.status_code = (IF respLog[p][i].t = "resp" THEN {respLog[p][i].status}
                                    ELSE {})
        /\ \A e \in err[p] :
               /\ e.type = "HTTPError" =>
                      /\ respLog[p] # <<>>
                      /\ LET o == respLog[p][Len(respLog[p])]
                         IN  /\ ~Is2xx(o)
                             /\ e.status_code = (IF o.t = "resp" THEN {o.status} ELSE {})
               /\ e.type = "ValueError" => ~ConfigValidate(token) /\ e.status_code = {}

\* C26 witness: a network failure on the second page of a run left it as an
\* HTTPError without a status code.
C26_Witness ==
    \E p \in Procs :
        /\ Paginated(p) /\ Len(respLog[p]) = 2 /\ respLog[p][2].t = "network"
        /\ \E e \in err[p] : e.type = "HTTPError" /\ e.status_code = {}

\* C28 (as stated): whatever made an exchange fail, what leaves
\* _make_request is an HTTPError carrying the request URL.
C28_EveryFailureIsHTTPError ==
    \A p \in Procs : \A i \in 1..Len(mrLog[p]) :
        ~mrLog[p][i].ok =>
            \A e \in mrLog[p][i].exc :
                e.type = "HTTPError" /\ e.url = {reqLog[p][i].url}

\* C29 (as stated): the data of every HTTPResponse and the response_data of
\* every HTTPError with a status code is a mapping, a sequence or a text.
C29_ThreeShapes ==
    \A p \in Procs : \A i \in 1..Len(mrLog[p]) :
        /\ \A r \in mrLog[p][i].resp : r.data.shape \in {"dict", "list", "text"}
        /\ \A e \in mrLog[p][i].exc : \A d \in e.response_data :
               e.status_code # {} => d.shape \in {"dict", "list", "text"}

\* The entries of a parameter mapping other than page.
WithoutPage(dct) == { e \in AsMap(dct) : e.k # Key("page", 0) }

\* C30: the mapping the caller passed as params is, during and after the
\* call, one of the mappings callers pass (nothing added, removed or
\* changed), and the requests of one pagination run carry the same
\* parameters apart from page.
C30_CallerParamsUntouched ==
    \A p \in Procs :
        /\ params[p] \in CallerParams
        /\ kind[p] = "single" =>
               \A i \in 1..Len(reqLog[p]) :
                   AsMap(reqLog[p][i].params) = AsMap(FormatCanvasParams(OrEmpty(params[p])))
        /\ Paginated(p) =>
               \A i, j \in 1..Len(reqLog[p]) :
                   /\ WithoutPage(reqLog[p][i].params) = WithoutPage(reqLog[p][j].params)
                   /\ DictGet(reqLog[p][i].params, Key("page", 0)) # {}

\* C30 witness: a run that was given a mapping with page, per_page and
\* include entries asked for two pages and ended, and the mapping is as it
\* was.
C30_Witness ==
    \E p \in Procs :
        /\ Paginated(p) /\ Len(reqLog[p]) >= 2 /\ Terminated(p)
        /\ \E d \in params[p] :
               /\ Len(d) = 3
               /\ DictGet(d, Key("page", 0)) = {Prim(9)}
               /\ DictGet(d, Key("per_page", 0)) = {Prim(9)}
               /\ DictGet(d, Key("include", 0)) = {List(<<Enum(1)>>)}
        /\ DictGet(reqLog[p][1].params, Key("include", 1)) = {List(<<Prim(1)>>)}

\* The position in the upstream's order of record rec of a page of size q.
CourseNo(rec, q) == (rec.id[1] - 1) * q + rec.id[2]

\* C21 (as stated): what get_courses returns after a failure of the client
\* is a mapping whose error key is "HTTP Error" or "Unexpected Error", with
\* a message, and with a numeric status_code when it is an HTTP Error.
C21_StructuredErrors ==
    \A p \in Procs :
        (calc.op = "tool" /\ pc[p] = "raised") =>
            /\ tool_ret[p] # {}
            /\ \A r \in tool_ret[p] :
                   /\ r.form = "object"
                   /\ r.error \in {"HTTP Error", "Unexpected Error"}
                   /\ "message" \in r.keys
                   /\ r.error = "HTTP Error" => "status_code" \in r.keys /\ r.status_code # {}

C23_AllCourses ==
    \A p \in Procs :
        (calc.op = "tool" /\ calc.limit = {} /\ pc[p] = "returned") =>
            \A r \in tool_ret[p] :
                /\ Len(r.courses) = calc.held
                /\ \A j \in 1..Len(r.courses) : CourseNo(r.courses[j], calc.per_page) = j

====
